---- MODULE Spec2Model ----
(***************************************************************************)
(* adguardhome-exporter (src/main.go): a Prometheus collector that, on     *)
(* every scrape, issues one GET to http://{endpoint}/control/stats,        *)
(* unmarshals the JSON body into a Response and sends constant metrics on  *)
(* the scrape's channel.                                                   *)
(*                                                                         *)
(* Numbers.  A Go int (64 bit) is the record [hi, lo], standing for        *)
(* hi * 2^53 + lo with 0 <= hi < 2^10 (lo may be negative when hi = 0).    *)
(* A float64 is the record [hi, lo, q], standing for hi * 2^53 + lo +      *)
(* q / 1024.  Both hold the exact value; float64(int) rounds to 53 bits.   *)
(***************************************************************************)
EXTENDS Integers, Sequences, FiniteSets, TLC

\* ------------------------------------------------------------------ bounds
\* Scrapes that may overlap in time.
NScrapes == 2
\* Longest top_upstreams_avg_time sequence the upstream sends.
MaxEntries == 2

Scrapes == 1..NScrapes

Nil == "nil"

\* ------------------------------------------------------------- numbers
I64(h, l) == [hi |-> h, lo |-> l]
F64(h, l, f) == [hi |-> h, lo |-> l, q |-> f]

RECURSIVE BitLen(_)
BitLen(n) == IF n = 0 THEN 0 ELSE 1 + BitLen(n \div 2)

\* float64(i) of a Go int: exact up to 53 bits, beyond that rounded to the
\* nearest multiple of the unit in the last place, ties to the even mantissa.
ToFloat64(i) ==
    LET u  == 2 ^ BitLen(i.hi)
        d  == i.lo \div u
        r  == i.lo % u
        up == (2 * r > u) \/ (2 * r = u /\ d % 2 = 1)
    IN  F64(i.hi, (IF up THEN d + 1 ELSE d) * u, 0)

\* ------------------------------------------------------- descriptors
namespace == "adguardhome"

BuildFQName(ns, name) == ns \o "_" \o name

up == [fqName |-> BuildFQName(namespace, "up"), variableLabels |-> <<>>]
upstreamTime ==
    [fqName |-> BuildFQName(namespace, "upstream_responses"),
     variableLabels |-> <<"address">>]
dnsQueries ==
    [fqName |-> BuildFQName(namespace, "dns_queries"), variableLabels |-> <<>>]
blockedDNSqueries ==
    [fqName |-> BuildFQName(namespace, "blocked_dns_queries"),
     variableLabels |-> <<>>]
processingTime ==
    [fqName |-> BuildFQName(namespace, "processing_time"),
     variableLabels |-> <<>>]
safeBrowsing ==
    [fqName |-> BuildFQName(namespace, "blocked_safe_browsing"),
     variableLabels |-> <<>>]
safeSearch ==
    [fqName |-> BuildFQName(namespace, "blocked_safe_search"),
     variableLabels |-> <<>>]

\* prometheus.MustNewConstMetric(desc, GaugeValue, value, labelValues...)
MustNewConstMetric(desc, value, labelValues) ==
    [name |-> desc.fqName, labels |-> labelValues, value |-> value]

\* -------------------------------------------------------------- Response
\* var res Response: the zero value of the struct.
ZeroResponse ==
    [UpstreamTime      |-> <<>>,
     AllDNSQueries     |-> I64(0, 0),
     BlockedDNSQueries |-> I64(0, 0),
     ProcessingTime    |-> F64(0, 0, 0),
     SafeBrowsing      |-> I64(0, 0),
     SafeSearch        |-> I64(0, 0)]

\* ------------------------------------------------------------------ JSON
\* A JSON member as the decoder meets it: absent, null, a number of the
\* kind the Go field takes ("int", "float"), an array, an object, or a value
\* of another kind ("bad": a string where a number is expected, 1.5 or 1e3
\* for an int, a number for the array, ...).
JAbsent == [k |-> "absent"]
JNull == [k |-> "null"]
JBad == [k |-> "bad"]
JInt(i) == [k |-> "int", hi |-> i.hi, lo |-> i.lo]
JFloat(f) == [k |-> "float", f |-> f]
JArray(es) == [k |-> "array", elems |-> es]
JObject(m) == [k |-> "object", m |-> m]

\* An int field: a JSON integer is stored, anything else leaves the field.
DecodeInt(j, old) == IF j.k = "int" THEN I64(j.hi, j.lo) ELSE old

\* A float64 field.
DecodeFloat(j, old) == IF j.k = "float" THEN j.f ELSE old

\* One element of []map[string]float64: an object becomes a map, each key
\* set to its number, or to 0 when the value is null or of another kind;
\* any other element stays the nil map.
DecodeMap(e) ==
    IF e.k = "object"
    THEN [a \in DOMAIN e.m |->
            IF e.m[a].k = "float" THEN e.m[a].f ELSE F64(0, 0, 0)]
    ELSE <<>>

\* The slice field: an array replaces it, element by element.
DecodeSlice(j, old) ==
    IF j.k = "array"
    THEN [i \in 1..Len(j.elems) |-> DecodeMap(j.elems[i])]
    ELSE old

\* A decoder that takes every member to be required.
RequiredMismatch(j, want) == j.k # want

\* Whether decoding member j into a field taking kind `want` records an
\* UnmarshalTypeError.
ScalarMismatch(j, want) == j.k \notin {"absent", "null", want}

ElemMismatch(e) ==
    \/ e.k \notin {"object", "null"}
    \/ e.k = "object" /\ \E a \in DOMAIN e.m : e.m[a].k \notin {"float", "null"}

SliceMismatch(j) ==
    \/ j.k \notin {"absent", "null", "array"}
    \/ j.k = "array" /\ \E i \in 1..Len(j.elems) : ElemMismatch(j.elems[i])

\* json.Unmarshal(body, &v).  A body that is not JSON is refused before
\* anything is stored; null stores nothing and is no error; a value that is
\* no object is a type error; an object is decoded member by member, a
\* mismatching member is skipped and the first mismatch is returned at the
\* end, after the other members were stored.
Unmarshal(body, v) ==
    CASE body.k = "syntax" -> [res |-> v, err |-> "SyntaxError"]
      [] body.k = "null" -> [res |-> v, err |-> Nil]
      [] body.k = "object" ->
           [res |->
              [UpstreamTime      |-> DecodeSlice(body.top_upstreams_avg_time, v.UpstreamTime),
               AllDNSQueries     |-> DecodeInt(body.num_dns_queries, v.AllDNSQueries),
               BlockedDNSQueries |-> DecodeInt(body.num_blocked_filtering, v.BlockedDNSQueries),
               ProcessingTime    |-> DecodeFloat(body.avg_processing_time, v.ProcessingTime),
               SafeBrowsing      |-> DecodeInt(body.num_replaced_safebrowsing, v.SafeBrowsing),
               SafeSearch        |-> DecodeInt(body.num_replaced_safesearch, v.SafeSearch)],
            err |->
              IF \/ SliceMismatch(body.top_upstreams_avg_time)
                 \/ ScalarMismatch(body.num_dns_queries, "int")
                 \/ ScalarMismatch(body.num_blocked_filtering, "int")
                 \/ ScalarMismatch(body.avg_processing_time, "float")
                 \/ ScalarMismatch(body.num_replaced_safebrowsing, "int")
                 \/ ScalarMismatch(body.num_replaced_safesearch, "int")
              THEN "UnmarshalTypeError"
              ELSE Nil]
      [] OTHER -> [res |-> v, err |-> "UnmarshalTypeError"]

\* ------------------------------------------------------- configuration
\* The five flags of main, the map from each environment variable to the
\* flag it is stored into, and the default flag.String gives each flag.
Settings == {"endpoint", "username", "password", "address", "path"}

config ==
    [ADGUARD_ENDPOINT |-> "endpoint",
     ADGUARD_USERNAME |-> "username",
     ADGUARD_PASSWORD |-> "password",
     ADGUARD_ADDRESS  |-> "address",
     ADGUARD_PATH     |-> "path"]

FlagDefaults ==
    [endpoint |-> "", username |-> "", password |-> "",
     address |-> ":8000", path |-> "/metrics"]

\* os.Getenv(key): the value of a variable that is set, "" for one that is not.
Getenv(environment, key) ==
    IF environment[key].set THEN environment[key].val ELSE ""

\* An override that also stores an empty environment value.
ApplyEnvAlways(value, envValue) == envValue

\* Lines 182-184: a non-empty environment value is stored through the flag's
\* pointer.
ApplyEnv(value, envValue) == IF envValue # "" THEN envValue ELSE value

\* flag.Parse(): a flag given on the command line is set to the given value.
ParseFlag(value, arg) == IF arg.given THEN arg.val ELSE value

NewExporter(endpoint, username, password) ==
    [Endpoint |-> endpoint, Username |-> username, Password |-> password]

NoExporter == NewExporter("-", "-", "-")

\* http.NewRequest fails when "http://" + endpoint + "/control/stats" is no
\* URL; of the endpoints used here the one holding a space is none.
ValidURL(endpoint) == endpoint # "bad host"

\* client.Do refuses a request whose URL has no host before sending it.
HasHost(endpoint) == endpoint # ""

\* The client (line 25) sets no CheckRedirect: net/http follows redirects and
\* stops after 10 consecutive requests.
MaxRequests == 10

\* ---------------------------------------------------------------- inputs
Unset == [set |-> FALSE, val |-> ""]
SetTo(v) == [set |-> TRUE, val |-> v]
NotGiven == [given |-> FALSE, val |-> ""]
Given(v) == [given |-> TRUE, val |-> v]

\* What the environment and the command line may hold for each setting.
EnvChoices ==
    [ADGUARD_ENDPOINT |-> {Unset, SetTo(""), SetTo("adguard:3000")},
     ADGUARD_USERNAME |-> {Unset, SetTo(""), SetTo("admin")},
     ADGUARD_PASSWORD |-> {Unset, SetTo(""), SetTo("secret")},
     ADGUARD_ADDRESS  |-> {Unset, SetTo(""), SetTo(":9617")},
     ADGUARD_PATH     |-> {Unset, SetTo(""), SetTo("/adguard")}]

ArgChoices ==
    [endpoint |-> {NotGiven, Given("bad host")},
     username |-> {NotGiven, Given("root")},
     password |-> {NotGiven, Given("hunter2")},
     address  |-> {NotGiven, Given("127.0.0.1:8000")},
     path     |-> {NotGiven, Given("/probe")}]

AllEnvironments ==
    {e \in [DOMAIN config -> UNION {EnvChoices[k] : k \in DOMAIN config}] :
        \A k \in DOMAIN config : e[k] \in EnvChoices[k]}
AllArgs == {a \in [Settings -> UNION {ArgChoices[k] : k \in Settings}] :
              \A k \in Settings : a[k] \in ArgChoices[k]}

\* The deployments the scrape specifications start from: credentials from
\* the environment, the endpoint from the environment, the command line or
\* neither.
ServeEnvironments ==
    {e \in AllEnvironments :
        /\ e.ADGUARD_ENDPOINT \in {Unset, SetTo("adguard:3000")}
        /\ e.ADGUARD_USERNAME = SetTo("admin")
        /\ e.ADGUARD_PASSWORD = SetTo("secret")
        /\ e.ADGUARD_ADDRESS = Unset /\ e.ADGUARD_PATH = Unset}
ServeArgs ==
    {a \in AllArgs : \A k \in Settings \ {"endpoint"} : a[k] = NotGiven}

Addresses == {"1.1.1.1", "8.8.8.8"}
\* 20/1024 s and 0.5 s.
Times == {F64(0, 0, 20), F64(0, 0, 512)}
\* 1, 2^53 and 2^53 + 1.
Counts == {I64(0, 1), I64(1, 0), I64(1, 1)}

SeqsUpTo(S, n) == UNION {[1..k -> S] : k \in 0..n}

\* JSON objects {address: time, ...} over the addresses.
TimeObjects ==
    {JObject(m) : m \in UNION {[A -> {JFloat(t) : t \in Times}] : A \in SUBSET Addresses}}

Elements ==
    TimeObjects \cup {JBad, JObject([a \in {"1.1.1.1"} |-> JBad])}

ObjectBody(u, q, b, p, sb, ss) ==
    [k |-> "object",
     top_upstreams_avg_time    |-> u,
     num_dns_queries           |-> q,
     num_blocked_filtering     |-> b,
     avg_processing_time       |-> p,
     num_replaced_safebrowsing |-> sb,
     num_replaced_safesearch   |-> ss]

\* Bodies that are no JSON object: not JSON at all, the JSON null, and
\* another JSON value (a string, a number, an array).
SyntaxBody == [k |-> "syntax"]
NullBody == [k |-> "null"]
ScalarBody == [k |-> "scalar"]

IntMembers == {JAbsent, JNull, JBad} \cup {JInt(c) : c \in Counts}
FloatMembers == {JAbsent, JBad} \cup {JFloat(t) : t \in Times}

\* Every combination of the five scalar members, with few upstream lists.
ScalarBodies ==
    {ObjectBody(u, q, b, p, sb, ss) :
        u \in {JAbsent, JArray(<<JObject([a \in {"8.8.8.8"} |-> JFloat(F64(0, 0, 20))])>>)},
        q \in IntMembers, b \in IntMembers, p \in FloatMembers,
        sb \in IntMembers, ss \in IntMembers}

\* Every upstream list up to MaxEntries elements, with fixed scalar members.
UpstreamBodies ==
    {ObjectBody(u, JInt(I64(0, 10)), JInt(I64(0, 2)), JFloat(F64(0, 0, 512)),
                JInt(I64(0, 1)), JInt(I64(0, 0))) :
        u \in {JNull, JBad} \cup {JArray(es) : es \in SeqsUpTo(Elements, MaxEntries)}}

AllBodies == {SyntaxBody, NullBody, ScalarBody} \cup ScalarBodies \cup UpstreamBodies

\* The body of the documented example, {}, a body with a member of the wrong
\* kind and members left out, and a body that is no JSON.  The
\* specifications with overlapping scrapes send the three of FewBodies.
ExampleBody ==
    ObjectBody(JArray(<<JObject([a \in {"1.1.1.1"} |-> JFloat(F64(0, 0, 20))])>>),
               JInt(I64(0, 10)), JInt(I64(0, 2)), JFloat(F64(0, 0, 512)),
               JInt(I64(0, 1)), JInt(I64(0, 0)))
EmptyObjectBody ==
    ObjectBody(JAbsent, JAbsent, JAbsent, JAbsent, JAbsent, JAbsent)
HalfBadBody ==
    ObjectBody(JArray(<<JObject([a \in {"8.8.8.8"} |-> JFloat(F64(0, 0, 512))]),
                        JObject([a \in {"8.8.8.8"} |-> JFloat(F64(0, 0, 20))])>>),
               JInt(I64(0, 7)), JBad, JAbsent, JInt(I64(0, 3)), JAbsent)
FewBodies == {ExampleBody, HalfBadBody, SyntaxBody}

\* ------------------------------------------------------------------ state
VARIABLES
    pcMain,     \* where main is: "flags", "env", "Parse", "NewExporter",
                \* "ListenAndServe", "serving"
    environ,    \* the process environment
    args,       \* the command line
    flags,      \* the strings the five flag pointers point to
    todo,       \* keys of config the range loop of line 181 has yet to visit
    exporter,   \* the registered *Exporter
    handler,    \* the path given to http.Handle and the address listened on
    pc,         \* per scrape: where Collect / CollectFromAPI is
    ch,         \* per scrape: the metrics sent on its channel, in order
    calls,      \* per scrape: calls of CollectFromAPI made by this Collect
    via,        \* per scrape: requests client.Do has sent so far
    resp,       \* per scrape: the response client.Do returned
    res,        \* per scrape: the local var res Response
    err,        \* per scrape: the local err of CollectFromAPI
    ret,        \* per scrape: the error CollectFromAPI returned to Collect
    rng         \* per scrape: the range loops of lines 131-137

mainVars == <<pcMain, environ, args, flags, todo, exporter, handler>>
scrapeVars == <<pc, ch, calls, via, resp, res, err, ret, rng>>
vars == <<pcMain, environ, args, flags, todo, exporter, handler,
          pc, ch, calls, via, resp, res, err, ret, rng>>

NoResponse == [body |-> [k |-> "none"], readErr |-> FALSE]
NoRange == [i |-> 0, keys |-> {}]

ScrapesIdle ==
    /\ pc = [s \in Scrapes |-> "idle"]
    /\ ch = [s \in Scrapes |-> <<>>]
    /\ calls = [s \in Scrapes |-> 0]
    /\ via = [s \in Scrapes |-> 0]
    /\ resp = [s \in Scrapes |-> NoResponse]
    /\ res = [s \in Scrapes |-> ZeroResponse]
    /\ err = [s \in Scrapes |-> Nil]
    /\ ret = [s \in Scrapes |-> Nil]
    /\ rng = [s \in Scrapes |-> NoRange]

\* The process as main is entered, in one of the given environments and
\* with one of the given command lines.
Start(environments, commandLines) ==
    /\ pcMain = "flags"
    /\ environ \in environments
    /\ args \in commandLines
    /\ flags = [k \in Settings |-> "-"]
    /\ todo = {}
    /\ exporter = NoExporter
    /\ handler = [path |-> "-", address |-> "-"]
    /\ ScrapesIdle

\* ------------------------------------------------------------------- main
\* Lines 161-179: the flags are defined with their defaults and config is
\* built.
DefineFlags ==
    /\ pcMain = "flags"
    /\ flags' = FlagDefaults
    /\ todo' = DOMAIN config
    /\ pcMain' = "env"
    /\ UNCHANGED <<environ, args, exporter, handler>>
    /\ UNCHANGED scrapeVars

\* Lines 181-185: one iteration of the range over config, in any order.
CheckEnv ==
    /\ pcMain = "env"
    /\ \E key \in todo :
         /\ flags' = [flags EXCEPT ![config[key]] = ApplyEnv(@, Getenv(environ, key))]
         /\ todo' = todo \ {key}
         /\ pcMain' = IF todo' = {} THEN "Parse" ELSE "env"
    /\ UNCHANGED <<environ, args, exporter, handler>>
    /\ UNCHANGED scrapeVars

\* Line 187: flag.Parse().
Parse ==
    /\ pcMain = "Parse"
    /\ flags' = [k \in Settings |-> ParseFlag(flags[k], args[k])]
    /\ pcMain' = "NewExporter"
    /\ UNCHANGED <<environ, args, todo, exporter, handler>>
    /\ UNCHANGED scrapeVars

\* Lines 189-193: the exporter is built and registered, the handler mounted.
Register ==
    /\ pcMain = "NewExporter"
    /\ exporter' = NewExporter(flags.endpoint, flags.username, flags.password)
    /\ handler' = [handler EXCEPT !.path = flags.path]
    /\ pcMain' = "ListenAndServe"
    /\ UNCHANGED <<environ, args, flags, todo>>
    /\ UNCHANGED scrapeVars

\* Line 195: http.ListenAndServe(*address, nil).
ListenAndServe ==
    /\ pcMain = "ListenAndServe"
    /\ handler' = [handler EXCEPT !.address = flags.address]
    /\ pcMain' = "serving"
    /\ UNCHANGED <<environ, args, flags, todo, exporter>>
    /\ UNCHANGED scrapeVars

main == DefineFlags \/ CheckEnv \/ Parse \/ Register \/ ListenAndServe

\* ------------------------------------------------------------- Collect
Send(s, m) == ch' = [ch EXCEPT ![s] = Append(@, m)]

\* A collector that keeps what the slot's last scrape sent.
CachedChannel(s) == ch[s]

\* The channel a scrape's Collect is handed: a new one, holding nothing.
NewChannel(s) == <<>>

\* A Response shared by the scrapes instead of a local one.
SharedResponse(s) == res[(s % NScrapes) + 1]

\* Line 128, var res Response: a new zero Response of the call's own.
NewResponse(s) == ZeroResponse

\* Line 95: the registry calls Collect for a scrape; a scrape slot that has
\* finished takes the next scrape.
Collect(s) ==
    /\ pcMain = "serving"
    /\ pc[s] \in {"idle", "done"}
    /\ pc' = [pc EXCEPT ![s] = "CollectFromAPI"]
    /\ ch' = [ch EXCEPT ![s] = NewChannel(s)]
    /\ calls' = [calls EXCEPT ![s] = 0]
    /\ via' = [via EXCEPT ![s] = 0]
    /\ resp' = [resp EXCEPT ![s] = NoResponse]
    /\ res' = [res EXCEPT ![s] = ZeroResponse]
    /\ err' = [err EXCEPT ![s] = Nil]
    /\ ret' = [ret EXCEPT ![s] = Nil]
    /\ rng' = [rng EXCEPT ![s] = NoRange]
    /\ UNCHANGED mainVars

\* CollectFromAPI returns e to Collect (line 96).
Return(s, e) ==
    /\ ret' = [ret EXCEPT ![s] = e]
    /\ pc' = [pc EXCEPT ![s] = "IfErr"]

\* Lines 96, 110-113: Collect calls CollectFromAPI, which builds the request.
NewRequest(s) ==
    /\ pc[s] = "CollectFromAPI"
    /\ calls' = [calls EXCEPT ![s] = @ + 1]
    /\ IF ValidURL(exporter.Endpoint)
       THEN /\ pc' = [pc EXCEPT ![s] = "Do"]
            /\ UNCHANGED <<err, ret>>
       ELSE /\ err' = [err EXCEPT ![s] = "invalid URL"]
            /\ Return(s, "invalid URL")
    /\ UNCHANGED <<ch, via, resp, res, rng>>
    /\ UNCHANGED mainVars

\* A client whose calls are serialised by a lock: Do waits while another
\* scrape's call is pending.
DoLocked(s) ==
    /\ pc[s] = "Do"
    /\ \A t \in Scrapes \ {s} : pc[t] # "RoundTrip"
    /\ via' = [via EXCEPT ![s] = 1]
    /\ pc' = [pc EXCEPT ![s] = "RoundTrip"]
    /\ UNCHANGED <<ch, calls, resp, res, err, ret, rng>>
    /\ UNCHANGED mainVars

\* Lines 115-118: the header is set and client.Do sends the request, unless
\* the URL has no host.
Do(s) ==
    /\ pc[s] = "Do"
    /\ IF HasHost(exporter.Endpoint)
       THEN /\ via' = [via EXCEPT ![s] = 1]
            /\ pc' = [pc EXCEPT ![s] = "RoundTrip"]
            /\ UNCHANGED <<err, ret>>
       ELSE /\ err' = [err EXCEPT ![s] = "no Host"]
            /\ Return(s, "no Host")
            /\ UNCHANGED via
    /\ UNCHANGED <<ch, calls, resp, res, rng>>
    /\ UNCHANGED mainVars

\* The upstream cannot be reached, or the connection breaks: client.Do
\* returns an error (lines 119-121).
TransportError(s) ==
    /\ pc[s] = "RoundTrip"
    /\ via' = [via EXCEPT ![s] = 0]
    /\ err' = [err EXCEPT ![s] = "transport"]
    /\ Return(s, "transport")
    /\ UNCHANGED <<ch, calls, resp, res, rng>>
    /\ UNCHANGED mainVars

\* The upstream answers with a redirect: client.Do sends a further GET to
\* its target, or gives up once MaxRequests requests were made.
Redirect(s) ==
    /\ pc[s] = "RoundTrip"
    /\ IF via[s] < MaxRequests
       THEN /\ via' = [via EXCEPT ![s] = @ + 1]
            /\ UNCHANGED <<pc, err, ret>>
       ELSE /\ via' = [via EXCEPT ![s] = 0]
            /\ err' = [err EXCEPT ![s] = "stopped after 10 redirects"]
            /\ Return(s, "stopped after 10 redirects")
    /\ UNCHANGED <<ch, calls, resp, res, rng>>
    /\ UNCHANGED mainVars

\* The upstream answers: client.Do returns the response (line 118).  The
\* status is not looked at.  The body is one of `bodies`; reading it may fail.
Respond(s, bodies) ==
    /\ pc[s] = "RoundTrip"
    /\ \E b \in bodies, e \in BOOLEAN :
         resp' = [resp EXCEPT ![s] = [body |-> b, readErr |-> e]]
    /\ via' = [via EXCEPT ![s] = 0]
    /\ pc' = [pc EXCEPT ![s] = "ReadAll"]
    /\ UNCHANGED <<ch, calls, res, err, ret, rng>>
    /\ UNCHANGED mainVars

\* Lines 123-126: io.ReadAll(response.Body).
ReadAll(s) ==
    /\ pc[s] = "ReadAll"
    /\ IF resp[s].readErr
       THEN /\ err' = [err EXCEPT ![s] = "read"]
            /\ Return(s, "read")
       ELSE /\ pc' = [pc EXCEPT ![s] = "Unmarshal"]
            /\ UNCHANGED <<err, ret>>
    /\ UNCHANGED <<ch, calls, via, resp, res, rng>>
    /\ UNCHANGED mainVars

\* Lines 128-129: err = json.Unmarshal(body, &res); err is not looked at.
UnmarshalBody(s) ==
    /\ pc[s] = "Unmarshal"
    /\ LET u == Unmarshal(resp[s].body, NewResponse(s))
       IN  /\ res' = [res EXCEPT ![s] = u.res]
           /\ err' = [err EXCEPT ![s] = u.err]
    /\ rng' = [rng EXCEPT ![s] = NoRange]
    /\ pc' = [pc EXCEPT ![s] = "RangeOuter"]
    /\ UNCHANGED <<ch, calls, via, resp, ret>>
    /\ UNCHANGED mainVars

\* Line 131: the next element of res.UpstreamTime, or the end of the loop.
RangeOuter(s) ==
    /\ pc[s] = "RangeOuter"
    /\ IF rng[s].i < Len(res[s].UpstreamTime)
       THEN /\ rng' = [rng EXCEPT ![s] =
                         [i |-> @.i + 1, keys |-> DOMAIN res[s].UpstreamTime[@.i + 1]]]
            /\ pc' = [pc EXCEPT ![s] = "RangeInner"]
       ELSE /\ rng' = [rng EXCEPT ![s] = NoRange]
            /\ pc' = [pc EXCEPT ![s] = "dnsQueries"]
    /\ UNCHANGED <<ch, calls, via, resp, res, err, ret>>
    /\ UNCHANGED mainVars

\* The value and label of the sample sent for key k of map m (line 134).
UpstreamSample(m, k) == MustNewConstMetric(upstreamTime, m[k], <<k>>)

\* Lines 132-136: one key of the element's map, in any order, or the end of
\* the map.
RangeInner(s) ==
    /\ pc[s] = "RangeInner"
    /\ IF rng[s].keys = {}
       THEN /\ pc' = [pc EXCEPT ![s] = "RangeOuter"]
            /\ UNCHANGED <<ch, rng>>
       ELSE /\ \E k \in rng[s].keys :
                 /\ Send(s, UpstreamSample(res[s].UpstreamTime[rng[s].i], k))
                 /\ rng' = [rng EXCEPT ![s].keys = @ \ {k}]
            /\ UNCHANGED pc
    /\ UNCHANGED <<calls, via, resp, res, err, ret>>
    /\ UNCHANGED mainVars

\* Lines 139-153: the five unlabeled metrics, in the order they are sent.
FixedOrder ==
    <<"dnsQueries", "blockedDNSqueries", "processingTime", "safeBrowsing", "safeSearch">>

\* A mapper that takes safeBrowsing and safeSearch from each other's field.
FixedSampleSwapped(r, at) ==
    CASE at = "dnsQueries" ->
           MustNewConstMetric(dnsQueries, ToFloat64(r.AllDNSQueries), <<>>)
      [] at = "blockedDNSqueries" ->
           MustNewConstMetric(blockedDNSqueries, ToFloat64(r.BlockedDNSQueries), <<>>)
      [] at = "processingTime" ->
           MustNewConstMetric(processingTime, r.ProcessingTime, <<>>)
      [] at = "safeBrowsing" ->
           MustNewConstMetric(safeBrowsing, ToFloat64(r.SafeSearch), <<>>)
      [] at = "safeSearch" ->
           MustNewConstMetric(safeSearch, ToFloat64(r.SafeBrowsing), <<>>)

FixedSample(r, at) ==
    CASE at = "dnsQueries" ->
           MustNewConstMetric(dnsQueries, ToFloat64(r.AllDNSQueries), <<>>)
      [] at = "blockedDNSqueries" ->
           MustNewConstMetric(blockedDNSqueries, ToFloat64(r.BlockedDNSQueries), <<>>)
      [] at = "processingTime" ->
           MustNewConstMetric(processingTime, r.ProcessingTime, <<>>)
      [] at = "safeBrowsing" ->
           MustNewConstMetric(safeBrowsing, ToFloat64(r.SafeBrowsing), <<>>)
      [] at = "safeSearch" ->
           MustNewConstMetric(safeSearch, ToFloat64(r.SafeSearch), <<>>)

\* What CollectFromAPI returns at line 155.
ReturnValue(e) == Nil

SendFixed(s) ==
    /\ \E j \in 1..Len(FixedOrder) :
         /\ pc[s] = FixedOrder[j]
         /\ Send(s, FixedSample(res[s], FixedOrder[j]))
         /\ IF j < Len(FixedOrder)
            THEN /\ pc' = [pc EXCEPT ![s] = FixedOrder[j + 1]]
                 /\ UNCHANGED ret
            ELSE Return(s, ReturnValue(err[s]))
    /\ UNCHANGED <<calls, via, resp, res, err, rng>>
    /\ UNCHANGED mainVars

\* Lines 97-102: a failed fetch sends up 0 and is printed; Collect then goes
\* on to line 104.
IfErr(s) ==
    /\ pc[s] = "IfErr"
    /\ IF ret[s] # Nil
       THEN Send(s, MustNewConstMetric(up, F64(0, 0, 0), <<>>))
       ELSE UNCHANGED ch
    /\ pc' = [pc EXCEPT ![s] = "Up"]
    /\ UNCHANGED <<calls, via, resp, res, err, ret, rng>>
    /\ UNCHANGED mainVars

\* Lines 104-106: up 1 is sent and Collect returns.
Up(s) ==
    /\ pc[s] = "Up"
    /\ Send(s, MustNewConstMetric(up, F64(0, 1, 0), <<>>))
    /\ pc' = [pc EXCEPT ![s] = "done"]
    /\ UNCHANGED <<calls, via, resp, res, err, ret, rng>>
    /\ UNCHANGED mainVars

\* The steps of the exporter's own code for scrape s, once it was called.
Step(s) ==
    \/ NewRequest(s) \/ Do(s) \/ ReadAll(s) \/ UnmarshalBody(s)
    \/ RangeOuter(s) \/ RangeInner(s) \/ SendFixed(s) \/ IfErr(s) \/ Up(s)

\* What the upstream and the network do to the pending call of scrape s.
Upstream(s, bodies) == TransportError(s) \/ Redirect(s) \/ Respond(s, bodies)

\* ------------------------------------------------------- specifications
\* The whole program: main, then overlapping scrapes against an upstream
\* that sends one of a few bodies.
Init == Start(ServeEnvironments, ServeArgs)
Next ==
    \/ main
    \/ \E s \in Scrapes : Collect(s) \/ Step(s) \/ Upstream(s, FewBodies)
Spec == Init /\ [][Next]_vars

\* Overlapping scrapes against an upstream that sends the example body, with
\* the scheduler running every scrape's own code: a goroutine that can take
\* a step is not held back for ever.  Nothing is assumed of the upstream,
\* which may never answer.
NextFair ==
    \/ main
    \/ \E s \in Scrapes : Collect(s) \/ Step(s) \/ Upstream(s, {ExampleBody})
FairSpec == Init /\ [][NextFair]_vars /\ \A s \in Scrapes : WF_vars(Step(s))

\* main alone, in every environment and with every command line.
InitMain == Start(AllEnvironments, AllArgs)
NextMain == main
SpecMain == InitMain /\ [][NextMain]_vars

\* One deployment and one scrape at a time, against an upstream that sends
\* any of the bodies: CollectFromAPI as a function of the body.
InitMap ==
    Start({e \in ServeEnvironments : e.ADGUARD_ENDPOINT = SetTo("adguard:3000")},
          {a \in ServeArgs : a.endpoint = NotGiven})
NextMap == main \/ Collect(1) \/ Step(1) \/ Upstream(1, AllBodies)
SpecMap == InitMap /\ [][NextMap]_vars

\* ------------------------------------------------------------- properties
IsUp(m) == m.name = "adguardhome_up"
UpSample(n) == [name |-> "adguardhome_up", labels |-> <<>>, value |-> F64(0, n, 0)]

Count(seq, m) == Cardinality({i \in DOMAIN seq : seq[i] = m})

\* The errors CollectFromAPI returns when the request cannot be built or
\* sent or the body cannot be read.
TransportErrors ==
    {"invalid URL", "no Host", "transport", "stopped after 10 redirects", "read"}

\* C1: a finished collection cycle has sent the liveness sample exactly
\* once, with value 1 when CollectFromAPI returned no error and 0 when it
\* returned one.
C1_LivenessExactlyOnce ==
    \A s \in Scrapes :
        pc[s] = "done" =>
            SelectSeq(ch[s], IsUp) = <<UpSample(IF ret[s] = Nil THEN 1 ELSE 0)>>

\* C2: a cycle whose upstream call failed with a transport error has sent
\* the liveness sample 0 and nothing else.
C2_TransportErrorOnlyUpZero ==
    \A s \in Scrapes :
        pc[s] = "done" /\ ret[s] \in TransportErrors => ch[s] = <<UpSample(0)>>

\* C3: a cycle whose body was read but is not JSON of the expected shape
\* (json.Unmarshal returned an error) has sent the liveness sample 0 and
\* nothing else.
C3_ParseErrorOnlyUpZero ==
    \A s \in Scrapes :
        /\ pc[s] = "done"
        /\ resp[s] # NoResponse /\ ~resp[s].readErr
        /\ err[s] \in {"SyntaxError", "UnmarshalTypeError"}
        => ch[s] = <<UpSample(0)>>

\* C8: within one cycle no two samples sent have the same metric name and
\* the same label values.
C8_NoDuplicateSamples ==
    \A s \in Scrapes :
        \A i, j \in DOMAIN ch[s] :
            i # j => ~(ch[s][i].name = ch[s][j].name /\ ch[s][i].labels = ch[s][j].labels)

\* ---- C4, C6: the body as the upstream wrote it, and the samples it calls for
\* The number that is the integer i, unchanged.
Exact(i) == F64(i.hi, i.lo, 0)

\* The count a member of the body states; 0 when the member is omitted.
MemberCount(j) == IF j.k = "int" THEN I64(j.hi, j.lo) ELSE I64(0, 0)
MemberTime(j) == IF j.k = "float" THEN j.f ELSE F64(0, 0, 0)

\* top_upstreams_avg_time is a sequence of single-entry mappings.
SingleEntries(u) ==
    /\ u.k = "array"
    /\ \A i \in 1..Len(u.elems) :
         /\ u.elems[i].k = "object"
         /\ Cardinality(DOMAIN u.elems[i].m) = 1
         /\ \A a \in DOMAIN u.elems[i].m : u.elems[i].m[a].k = "float"

\* The upstream_responses samples of such a sequence, entry by entry.
EntrySamples(u) ==
    [i \in 1..Len(u.elems) |->
        LET a == CHOOSE a \in DOMAIN u.elems[i].m : TRUE
        IN  [name |-> "adguardhome_upstream_responses",
             labels |-> <<a>>, value |-> u.elems[i].m[a].f]]

FixedNames ==
    <<"adguardhome_dns_queries", "adguardhome_blocked_dns_queries",
      "adguardhome_processing_time", "adguardhome_blocked_safe_browsing",
      "adguardhome_blocked_safe_search">>

\* The five response fields, as exact numbers, in the order of FixedNames.
FieldValues(body) ==
    <<Exact(MemberCount(body.num_dns_queries)),
      Exact(MemberCount(body.num_blocked_filtering)),
      MemberTime(body.avg_processing_time),
      Exact(MemberCount(body.num_replaced_safebrowsing)),
      Exact(MemberCount(body.num_replaced_safesearch))>>

VerbatimSamples(body) ==
    [j \in 1..5 |-> [name |-> FixedNames[j], labels |-> <<>>, value |-> FieldValues(body)[j]]]

\* A number of magnitude at most 2^53.
UpTo2p53(f) == f.hi = 0 \/ (f.hi = 1 /\ f.lo = 0 /\ f.q = 0)

\* g is a float64 nearest to the number f >= 2^53: a multiple of the unit in
\* the last place at f, no further than half a unit from f.
Nearest(g, f) ==
    LET u == 2 ^ BitLen(f.hi)
    IN  /\ g.hi = f.hi /\ g.q = 0
        /\ g.lo % u = 0
        /\ 2 * (g.lo - f.lo) <= u /\ 2 * (f.lo - g.lo) <= u

\* The scrape of SpecMap has finished on a successfully parsed object whose
\* top_upstreams_avg_time is a sequence of single-entry mappings.
ParsedSingleEntries ==
    /\ pc[1] = "done"
    /\ resp[1] # NoResponse /\ ~resp[1].readErr
    /\ resp[1].body.k = "object"
    /\ err[1] = Nil
    /\ SingleEntries(resp[1].body.top_upstreams_avg_time)

\* C4 as stated: for a successfully parsed response with N single-entry
\* mappings the cycle sends the N upstream_responses samples, in order, with
\* each entry's address and time, then the five fixed-name samples with the
\* response fields as their values, unchanged, and succeeds.
C4_ValuesVerbatim ==
    ParsedSingleEntries =>
        ch[1] = EntrySamples(resp[1].body.top_upstreams_avg_time)
                  \o VerbatimSamples(resp[1].body) \o <<UpSample(1)>>

\* C4 as amended: the same, except that a count above 2^53 is sent as the
\* float64 nearest to it; every field of magnitude at most 2^53 is sent
\* unchanged.
C4_ValuesVerbatimUpTo2p53 ==
    ParsedSingleEntries =>
        LET u == resp[1].body.top_upstreams_avg_time
            n == Len(u.elems)
            want == VerbatimSamples(resp[1].body)
        IN  /\ Len(ch[1]) = n + 6
            /\ SubSeq(ch[1], 1, n) = EntrySamples(u)
            /\ \A j \in 1..5 :
                 LET got == ch[1][n + j]
                 IN  /\ got.name = want[j].name
                     /\ got.labels = <<>>
                     /\ IF UpTo2p53(want[j].value)
                        THEN got.value = want[j].value
                        ELSE Nearest(got.value, want[j].value)
            /\ ch[1][n + 6] = UpSample(1)

\* C4's case: a finished scrape of two single-entry mappings and ten DNS
\* queries, with 2 + 5 + 1 samples sent.
C4_Witness ==
    /\ ParsedSingleEntries
    /\ Len(resp[1].body.top_upstreams_avg_time.elems) = 2
    /\ resp[1].body.num_dns_queries = JInt(I64(0, 10))
    /\ Len(ch[1]) = 8

\* ---- C6
\* Every member the object holds is of the kind its field takes.
PresentMembersValid(body) ==
    /\ body.top_upstreams_avg_time.k = "absent"
       \/ SingleEntries(body.top_upstreams_avg_time)
    /\ body.num_dns_queries.k \in {"absent", "int"}
    /\ body.num_blocked_filtering.k \in {"absent", "int"}
    /\ body.avg_processing_time.k \in {"absent", "float"}
    /\ body.num_replaced_safebrowsing.k \in {"absent", "int"}
    /\ body.num_replaced_safesearch.k \in {"absent", "int"}

MemberOf(body, j) ==
    <<body.num_dns_queries, body.num_blocked_filtering, body.avg_processing_time,
      body.num_replaced_safebrowsing, body.num_replaced_safesearch>>[j]

\* The scrape of SpecMap has finished on an object that omits some members.
OmitsMembers ==
    /\ pc[1] = "done"
    /\ resp[1] # NoResponse /\ ~resp[1].readErr
    /\ resp[1].body.k = "object"
    /\ PresentMembersValid(resp[1].body)
    /\ \/ resp[1].body.top_upstreams_avg_time.k = "absent"
       \/ \E j \in 1..5 : MemberOf(resp[1].body, j).k = "absent"

\* C6: an object body that omits members is accepted: json.Unmarshal and
\* CollectFromAPI return no error, every omitted field is sent as 0 (no
\* upstream_responses sample for an omitted list), each of the five
\* fixed-name samples is sent once, and the liveness sample is 1.
C6_OmittedFieldsAreZero ==
    OmitsMembers =>
        /\ err[1] = Nil /\ ret[1] = Nil
        /\ \A j \in 1..5 :
             /\ Cardinality({i \in DOMAIN ch[1] : ch[1][i].name = FixedNames[j]}) = 1
             /\ MemberOf(resp[1].body, j).k = "absent" =>
                  Count(ch[1], [name |-> FixedNames[j], labels |-> <<>>,
                                value |-> F64(0, 0, 0)]) = 1
        /\ resp[1].body.top_upstreams_avg_time.k = "absent" =>
             \A i \in DOMAIN ch[1] : ch[1][i].name # "adguardhome_upstream_responses"
        /\ SelectSeq(ch[1], IsUp) = <<UpSample(1)>>

\* C6's case: the body {} was collected.
C6_Witness ==
    /\ OmitsMembers
    /\ resp[1].body = EmptyObjectBody
    /\ Len(ch[1]) = 6

\* ---- C5
\* The environment variable and the default of each setting, as documented.
EnvName ==
    [endpoint |-> "ADGUARD_ENDPOINT", username |-> "ADGUARD_USERNAME",
     password |-> "ADGUARD_PASSWORD", address |-> "ADGUARD_ADDRESS",
     path |-> "ADGUARD_PATH"]
Default ==
    [endpoint |-> "", username |-> "", password |-> "",
     address |-> ":8000", path |-> "/metrics"]

\* The value the running process uses for a setting.
Effective(k) ==
    CASE k = "endpoint" -> exporter.Endpoint
      [] k = "username" -> exporter.Username
      [] k = "password" -> exporter.Password
      [] k = "address"  -> handler.address
      [] k = "path"     -> handler.path

FlagValue(k) == IF args[k].given THEN args[k].val ELSE Default[k]

\* A variable the process can see as set: os.Getenv gives "" both for an
\* unset variable and for one set to the empty string.
SetInEnv(k) == environ[EnvName[k]].set /\ environ[EnvName[k]].val # ""

\* C5 as stated: once main serves, each setting is its environment variable's
\* value when the variable is set, whatever the command line says, and the
\* flag's command-line value or else its default when the variable is unset.
C5_EnvironmentOverridesFlags ==
    pcMain = "serving" =>
        \A k \in Settings :
            Effective(k) = IF SetInEnv(k)
                           THEN environ[EnvName[k]].val
                           ELSE FlagValue(k)

\* C5 as amended: once main serves, each setting is the flag's command-line
\* value when the flag is given; otherwise its environment variable's value
\* when the variable is set and not empty; otherwise the flag's default.
C5_FlagsOverrideEnvironment ==
    pcMain = "serving" =>
        \A k \in Settings :
            Effective(k) = IF args[k].given THEN args[k].val
                           ELSE IF SetInEnv(k)
                                THEN environ[EnvName[k]].val
                                ELSE Default[k]

\* C5's case: main serves with one variable set and its flag given, one
\* variable set and its flag not given, one variable set to the empty string
\* and one setting left to its default.
C5_Witness ==
    /\ pcMain = "serving"
    /\ environ.ADGUARD_ENDPOINT.set /\ args.endpoint.given
    /\ environ.ADGUARD_USERNAME = SetTo("admin") /\ ~args.username.given
    /\ environ.ADGUARD_ADDRESS = SetTo("") /\ ~args.address.given
    /\ ~environ.ADGUARD_PATH.set /\ ~args.path.given
    /\ exporter.Endpoint = "bad host" /\ exporter.Username = "admin"
    /\ handler = [path |-> "/metrics", address |-> ":8000"]

\* ---- C7, C9: what a scrape sends as a function of its own call
\* The Response a scrape's own body decodes to, from the zero Response.
OwnResponse(s) == Unmarshal(resp[s].body, ZeroResponse).res

\* How often sample m is due in the cycle of scrape s, given only the
\* outcome of the scrape's own call: its error, or its response.
Due(s, m) ==
    IF ret[s] # Nil
    THEN Count(<<UpSample(0), UpSample(1)>>, m)
    ELSE LET r == OwnResponse(s)
         IN  Cardinality({<<i, a>> \in (DOMAIN r.UpstreamTime) \X Addresses :
                            /\ a \in DOMAIN r.UpstreamTime[i]
                            /\ UpstreamSample(r.UpstreamTime[i], a) = m})
             + Cardinality({j \in DOMAIN FixedOrder : FixedSample(r, FixedOrder[j]) = m})
             + Count(<<UpSample(1)>>, m)

DueInAll(s) ==
    IF ret[s] # Nil
    THEN 2
    ELSE LET r == OwnResponse(s)
         IN  Cardinality({<<i, a>> \in (DOMAIN r.UpstreamTime) \X Addresses :
                            a \in DOMAIN r.UpstreamTime[i]})
             + Len(FixedOrder) + 1

\* No sample was sent that the scrape's own call does not account for.
OnlyOwnSamples(s) ==
    /\ resp[s] = NoResponse /\ ret[s] = Nil => ch[s] = <<>>
    /\ \A i \in DOMAIN ch[s] : Count(ch[s], ch[s][i]) <= Due(s, ch[s][i])

\* C7 as stated: a scrape calls CollectFromAPI once, the call is never
\* repeated, at most one GET is sent for it, and a finished scrape has sent
\* exactly the samples its own call accounts for.
C7_OneCallOneGet ==
    \A s \in Scrapes :
        /\ calls[s] <= 1
        /\ pc[s] \notin {"idle", "CollectFromAPI"} => calls[s] = 1
        /\ via[s] <= 1
        /\ pc[s] = "done" => OnlyOwnSamples(s) /\ Len(ch[s]) = DueInAll(s)

\* C7 as amended: the same, but the one call of client.Do sends one GET and
\* one further GET for every redirect it follows, at most MaxRequests GETs
\* in all (and none when the URL is invalid or has no host).
C7_OneCallFollowingRedirects ==
    \A s \in Scrapes :
        /\ calls[s] <= 1
        /\ pc[s] \notin {"idle", "CollectFromAPI"} => calls[s] = 1
        /\ via[s] <= MaxRequests
        /\ via[s] > 0 => pc[s] = "RoundTrip" /\ ValidURL(exporter.Endpoint)
                         /\ HasHost(exporter.Endpoint)
        /\ pc[s] = "done" => OnlyOwnSamples(s) /\ Len(ch[s]) = DueInAll(s)

\* C7's case: a scrape has finished with the samples of the example body
\* and another with those of a failed call, each after one call.
C7_Witness ==
    \E s, t \in Scrapes :
        /\ pc[s] = "done" /\ calls[s] = 1 /\ resp[s].body = ExampleBody
        /\ ret[s] = Nil /\ Len(ch[s]) = 7
        /\ pc[t] = "done" /\ calls[t] = 1 /\ ret[t] = "stopped after 10 redirects"

\* ---- C9
\* The exporter as main built it from the environment and the command line.
StartupExporter ==
    [Endpoint |-> IF args.endpoint.given THEN args.endpoint.val
                  ELSE IF SetInEnv("endpoint") THEN environ.ADGUARD_ENDPOINT.val
                  ELSE Default.endpoint,
     Username |-> IF args.username.given THEN args.username.val
                  ELSE IF SetInEnv("username") THEN environ.ADGUARD_USERNAME.val
                  ELSE Default.username,
     Password |-> IF args.password.given THEN args.password.val
                  ELSE IF SetInEnv("password") THEN environ.ADGUARD_PASSWORD.val
                  ELSE Default.password]

\* C9: with scrapes overlapping, at every moment every scrape has made its
\* own call (at most one, exactly one once it is past the call), has sent
\* only samples that the outcome of its own call accounts for, and the
\* exporter still holds the endpoint, username and password of startup.
C9_ScrapesIndependent ==
    /\ pcMain = "serving" => exporter = StartupExporter
    /\ \A s \in Scrapes :
         /\ OnlyOwnSamples(s)
         /\ pc[s] \in {"ReadAll", "Unmarshal"} => calls[s] = 1 /\ resp[s] # NoResponse

\* C9's case: two scrapes overlap, each part-way through sending the samples
\* of a different body.
C9_Witness ==
    \E s, t \in Scrapes :
        /\ pc[s] = "safeBrowsing" /\ resp[s].body = ExampleBody
        /\ pc[t] = "processingTime" /\ resp[t].body = HalfBadBody
        /\ Len(ch[s]) = 4 /\ Len(ch[t]) = 4

\* ---- C10
\* The call of client.Do has not returned yet.
BeforeReturn(s) == pc[s] \in {"CollectFromAPI", "Do", "RoundTrip"}
\* client.Do has returned, with a response or with an error.
Returned(s) == pc[s] \in {"ReadAll", "IfErr"}
\* The scrape is running the exporter's code and is not in client.Do.
Running(s) == pc[s] \notin {"idle", "done", "RoundTrip"}

====
